---- MODULE Spec2Model ----
(***************************************************************************)
(* Block assembly pipeline of the repository: load the mempool records,    *)
(* filter them by the fee rule, synthesize the coinbase, assemble the      *)
(* block, serialize and double-hash its header, write output.txt.          *)
(*                                                                         *)
(* Two revisions of the program are in the repository; `rev` selects one:  *)
(*   "hash"  : src/unnamed/part_000 (digest + zeroed coinbase placeholders)*)
(*   "plain" : src/main2.go         (binary size/header/count report)      *)
(*                                                                         *)
(* Machine integers.  Go's int is 64 bits wide on the 64-bit builds the    *)
(* program targets and wraps silently; uint32 is 32 bits.  Both exceed the *)
(* range of the model checker's integers, so a machine integer is a        *)
(* little-endian sequence of 16-bit limbs (4 limbs: int, two's complement; *)
(* 2 limbs: uint32) and the arithmetic is carried limb by limb.            *)
(***************************************************************************)
EXTENDS Integers, Sequences, FiniteSets, TLC

\* ------------------------------------------------------------------ bounds
\* Directory entries in the mempool folder.
MaxFiles == 2
\* Inputs / outputs per transaction handed to ValidateTransaction on its own.
MaxVin == 2
MaxVout == 2
\* Length of the difficulty-target text handed to SerializeBlockHeader on its own.
MaxTargetLen == 2

\* ------------------------------------------------------- machine integers
Base == 2 ^ 16
HalfBase == 2 ^ 15

RECURSIVE AddLimbs(_, _, _)
\* a + b + carry on equally long limb sequences, the carry out of the top
\* limb dropped: Go's wrapping `+=` at the width of the operands.
AddLimbs(a, b, carry) ==
    IF a = <<>> THEN <<>>
    ELSE LET s == a[1] + b[1] + carry
         IN  <<s % Base>> \o AddLimbs(Tail(a), Tail(b), s \div Base)

RECURSIVE LessUnsigned(_, _)
LessUnsigned(a, b) ==
    IF a = <<>> THEN FALSE
    ELSE LET n == Len(a)
         IN  IF a[n] # b[n] THEN a[n] < b[n]
             ELSE LessUnsigned(SubSeq(a, 1, n - 1), SubSeq(b, 1, n - 1))

\* Two's complement order: flip the sign bit, then compare as unsigned.
Biased(a) == [i \in 1..Len(a) |-> IF i = Len(a) THEN (a[i] + HalfBase) % Base ELSE a[i]]
LessSigned(a, b) == LessUnsigned(Biased(a), Biased(b))

IsNegative(a) == a[Len(a)] >= HalfBase

\* The same number on n limbs (n >= Len(a)).
SignExtend(a, n) ==
    [i \in 1..n |-> IF i <= Len(a) THEN a[i] ELSE IF IsNegative(a) THEN Base - 1 ELSE 0]

\* The int with value n, for a literal |n| < 2^31.
I64(n) ==
    IF n >= 0 THEN <<n % Base, n \div Base, 0, 0>>
    ELSE LET m == (-n) - 1
         IN  <<(Base - 1) - (m % Base), (Base - 1) - (m \div Base), Base - 1, Base - 1>>

MaxInt64 == <<Base - 1, Base - 1, Base - 1, HalfBase - 1>>
MinInt64 == <<0, 0, 0, HalfBase>>

\* The uint32 with value hi * 2^16 + lo.
U32(hi, lo) == <<lo, hi>>

\* uint32(x) of an int64 x: the low 32 bits.
TruncU32(x) == <<x[1], x[2]>>

\* ------------------------------------------------------------- data model
Prevout(value) ==
    [ScriptPubKey |-> "", ScriptPubKeyASM |-> "", ScriptPubKeyType |-> "",
     ScriptPubKeyAddr |-> "", Value |-> value]

TxOutput(spk, asm, type, addr, value) ==
    [ScriptPubKey |-> spk, ScriptPubKeyASM |-> asm, ScriptPubKeyType |-> type,
     ScriptPubKeyAddr |-> addr, Value |-> value]

\* Witness: a nil and an empty slice are both the empty sequence.
TxInput(txid, vout, scriptSig, isCoinbase, sequence, prevOut) ==
    [Txid |-> txid, Vout |-> vout, ScriptSig |-> scriptSig, Witness |-> <<>>,
     IsCoinbase |-> isCoinbase, Sequence |-> sequence, PrevOut |-> prevOut]

Transaction(version, locktime, vin, vout) ==
    [Version |-> version, Locktime |-> locktime, Vin |-> vin, Vout |-> vout]

ZeroBytes32 == [i \in 1..32 |-> 0]

\* BlockHeader{}: the zero value.
ZeroHeader ==
    [Version |-> U32(0, 0), PreviousBlockHash |-> ZeroBytes32, MerkleRoot |-> ZeroBytes32,
     Timestamp |-> U32(0, 0), DifficultyTarget |-> <<>>, Nonce |-> U32(0, 0)]

\* Block{}: the zero value.
ZeroBlock ==
    [Size |-> 0, Header |-> ZeroHeader, TransactionCount |-> 0, Transactions |-> <<>>]

\* ---------------------------------------------------------- ValidateTransaction
RECURSIVE SumInputs(_)
\* input += vin.PrevOut.Value over tx.Vin, from 0, wrapping at 64 bits.
SumInputs(vin) ==
    IF vin = <<>> THEN I64(0)
    ELSE AddLimbs(SumInputs(SubSeq(vin, 1, Len(vin) - 1)), vin[Len(vin)].PrevOut.Value, 0)

RECURSIVE SumOutputs(_)
\* output += vout.Value over tx.Vout, from 0, wrapping at 64 bits.
SumOutputs(vout) ==
    IF vout = <<>> THEN I64(0)
    ELSE AddLimbs(SumOutputs(SubSeq(vout, 1, Len(vout) - 1)), vout[Len(vout)].Value, 0)

\* if input > output { return true }; return false
ValidateTransaction(tx) == LessSigned(SumOutputs(tx.Vout), SumInputs(tx.Vin))

\* --------------------------------------------------------- header serializer
\* binary.LittleEndian.PutUint32: least significant byte first.
serializeUint32BigEndian(value) ==
    <<value[2] \div 256, value[2] % 256, value[1] \div 256, value[1] % 256>>

serializeUint32(value) ==
    <<value[1] % 256, value[1] \div 256, value[2] % 256, value[2] \div 256>>

SerializeBlockHeader(header) ==
    serializeUint32(header.Version)
      \o header.PreviousBlockHash
      \o header.MerkleRoot
      \o serializeUint32(header.Timestamp)
      \o header.DifficultyTarget
      \o serializeUint32(header.Nonce)

\* -------------------------------------------------------------- header digest
\* crypto/sha256 is an ideal hash here: a digest is the term that records how
\* many passes were applied to which preimage, so two digests are equal exactly
\* when they were computed the same way from the same bytes.
Sum256(data) == [rounds |-> 1, preimage |-> data]

\* sha256.Sum256(hash[:]): one more pass, over the raw bytes of a digest.
Sum256OfDigest(digest) == [rounds |-> digest.rounds + 1, preimage |-> digest.preimage]

HashBlockHeaderSinglePass(serializedHeader) == Sum256(serializedHeader)

HashBlockHeader(serializedHeader) == Sum256OfDigest(Sum256(serializedHeader))

\* A [32]byte that has not been assigned a digest.
NoHash == [rounds |-> 0, preimage |-> <<>>]

\* ------------------------------------------------------------------ coinbase
Zeros64 == "0000000000000000000000000000000000000000000000000000000000000000"

CreateCoinbaseTransaction ==
    Transaction(U32(0, 1), U32(0, 0),
        <<TxInput("", -1, "", TRUE, U32(Base - 1, Base - 1), Prevout(I64(0)))>>,
        <<TxOutput("", "", "", "", I64(0))>>)

CreateCoinbaseTransactionPlain ==
    Transaction(U32(0, 1), U32(0, 0),
        <<TxInput(Zeros64, -1, "coinbase script", TRUE, U32(Base - 1, Base - 1),
                  Prevout(I64(0)))>>,
        <<TxOutput("script pubkey", "script pubkey asm", "script pubkey type",
                   "script pubkey address", I64(1000000))>>)

\* The zero Transaction.
ZeroTransaction == Transaction(U32(0, 0), U32(0, 0), <<>>, <<>>)

\* -------------------------------------------------------------------- loader
\* A directory entry: IsDir and Json (the name ends in ".json") decide whether
\* it is read; Readable whether ioutil.ReadFile succeeds; Decodes whether
\* json.Unmarshal succeeds, and then Tx is the decoded value.
DirEntry(isDir, json, readable, decodes, tx) ==
    [IsDir |-> isDir, Json |-> json, Readable |-> readable, Decodes |-> decodes, Tx |-> tx]

RECURSIVE LoadFilesSkipMalformed(_, _)
LoadFilesSkipMalformed(files, transactions) ==
    IF files = <<>> THEN [transactions |-> transactions, err |-> "nil"]
    ELSE LET file == Head(files)
         IN  IF ~file.IsDir /\ file.Json
             THEN IF ~file.Readable THEN [transactions |-> <<>>, err |-> "read"]
                  ELSE IF ~file.Decodes THEN LoadFilesSkipMalformed(Tail(files), transactions)
                  ELSE LoadFilesSkipMalformed(Tail(files), Append(transactions, file.Tx))
             ELSE LoadFilesSkipMalformed(Tail(files), transactions)

LoadTransactionsFromFolderSkipMalformed(folder) ==
    IF folder.err THEN [transactions |-> <<>>, err |-> "readdir"]
    ELSE LoadFilesSkipMalformed(folder.files, <<>>)

RECURSIVE LoadFiles(_, _)
\* The loop over the directory's entries; every error return is (nil, err).
LoadFiles(files, transactions) ==
    IF files = <<>> THEN [transactions |-> transactions, err |-> "nil"]
    ELSE LET file == Head(files)
         IN  IF ~file.IsDir /\ file.Json
             THEN IF ~file.Readable THEN [transactions |-> <<>>, err |-> "read"]
                  ELSE IF ~file.Decodes THEN [transactions |-> <<>>, err |-> "decode"]
                  ELSE LoadFiles(Tail(files), Append(transactions, file.Tx))
             ELSE LoadFiles(Tail(files), transactions)

LoadTransactionsFromFolder(folder) ==
    IF folder.err THEN [transactions |-> <<>>, err |-> "readdir"]
    ELSE LoadFiles(folder.files, <<>>)

\* ------------------------------------------------------------ block assembly
BlockTransactionsCoinbaseLast(coinbaseTx, validTransactions) ==
    validTransactions \o <<coinbaseTx>>

\* append([]Transaction{coinbaseTx}, validTransactions...)
BlockTransactions(coinbaseTx, validTransactions) == <<coinbaseTx>> \o validTransactions

\* "0000ffff" followed by 56 "0", as the bytes of the string.
DifficultyTarget == [i \in 1..64 |-> IF i \in 5..8 THEN 102 ELSE 48]

\* unsafe.Sizeof(tx) of a Transaction on a 64-bit build: two uint32 and two
\* slice headers.  It does not depend on the transaction.
TransactionSizeof == 56

RECURSIVE SumSizeof(_)
SumSizeof(txs) == IF txs = <<>> THEN 0 ELSE TransactionSizeof + SumSizeof(Tail(txs))

BlockSizeNoCounter(block) ==
    Len(SerializeBlockHeader(block.Header)) + SumSizeof(block.Transactions)

\* The uint64 arithmetic stays far below 2^64 and is carried in plain integers.
BlockSize(block) ==
    Len(SerializeBlockHeader(block.Header)) + 8 + SumSizeof(block.Transactions)

\* -------------------------------------------------------------- report writer
\* output.txt is a sequence of tokens, in the order they were written: a line
\* break, a text, a byte string, the hex text of a digest, the JSON text of a
\* transaction.  A text token is a transaction identifier: hex text, which holds
\* no line break; JSON text holds none either (json.Marshal escapes them).
NL == [k |-> "nl", v |-> ""]
Text(s) == [k |-> "text", v |-> s]
Bytes(b) == [k |-> "bytes", v |-> b]

\* hex.EncodeToString(digest[:])
HexText(digest) == [k |-> "hex", v |-> digest]

JsonPrevout(p) ==
    [scriptpubkey |-> p.ScriptPubKey, scriptpubkey_asm |-> p.ScriptPubKeyASM,
     scriptpubkey_type |-> p.ScriptPubKeyType, scriptpubkey_address |-> p.ScriptPubKeyAddr,
     value |-> p.Value]

JsonTxInput(in) ==
    [txid |-> in.Txid, vout |-> in.Vout, scriptsig |-> in.ScriptSig, witness |-> in.Witness,
     is_coinbase |-> in.IsCoinbase, sequence |-> in.Sequence, prevout |-> JsonPrevout(in.PrevOut)]

\* json.Marshal(tx): the object keyed by the struct tags, in declaration order.
JsonText(tx) ==
    [k |-> "json",
     v |-> [version |-> tx.Version, locktime |-> tx.Locktime,
            vin |-> [i \in 1..Len(tx.Vin) |-> JsonTxInput(tx.Vin[i])],
            vout |-> [i \in 1..Len(tx.Vout) |-> JsonPrevout(tx.Vout[i])]]]

\* binary.Write(file, binary.LittleEndian, n) of a uint64 n < 2^31.
PutUint64(n) == [i \in 1..8 |-> IF i <= 4 THEN (n \div (256 ^ (i - 1))) % 256 ELSE 0]

RECURSIVE IdentifierWrites(_)
\* One WriteString(tx.Vin[0].Txid + "\n") per transaction, up to the first
\* transaction without inputs, where tx.Vin[0] panics.
IdentifierWrites(txs) ==
    IF txs = <<>> \/ Head(txs).Vin = <<>> THEN <<>>
    ELSE <<<<Text(Head(txs).Vin[1].Txid), NL>>>> \o IdentifierWrites(Tail(txs))

\* The transactions the identifier loop of WriteBlockToOutputFile ranges over.
ListedTransactionsWithCoinbase(r, block) == block.Transactions

ListedTransactions(r, block) ==
    IF r = "hash" THEN Tail(block.Transactions) ELSE block.Transactions

\* The writes of WriteBlockToOutputFile before its identifier loop.
HeadWrites(r, block) ==
    IF r = "hash"
    THEN << <<HexText(Sum256OfDigest(Sum256(SerializeBlockHeader(block.Header)))), NL>>,
            <<JsonText(block.Transactions[1])>>,
            <<NL>> >>
    ELSE << <<Bytes(PutUint64(block.Size))>>,
            <<Bytes(SerializeBlockHeader(block.Header))>>,
            <<Bytes(PutUint64(block.TransactionCount))>> >>

\* Every write WriteBlockToOutputFile issues, in order, if none fails.
Writes(r, block) == HeadWrites(r, block) \o IdentifierWrites(ListedTransactions(r, block))

\* tx.Vin[0] of a transaction without inputs: index out of range.
WriterPanics(r, block) ==
    \E i \in 1..Len(ListedTransactions(r, block)) : ListedTransactions(r, block)[i].Vin = <<>>

RECURSIVE Concat(_)
Concat(ss) == IF ss = <<>> THEN <<>> ELSE Head(ss) \o Concat(Tail(ss))

NoFile == [exists |-> FALSE, data |-> <<>>]
File(data) == [exists |-> TRUE, data |-> data]

RECURSIVE Lines(_)
\* The lines of a token sequence: the runs of tokens that the line breaks end
\* (a last run without its line break is a line too).
Lines(data) ==
    IF data = <<>> THEN <<>>
    ELSE IF \E i \in 1..Len(data) : data[i].k = "nl"
         THEN LET i == CHOOSE j \in 1..Len(data) :
                           data[j].k = "nl" /\ \A h \in 1..(j - 1) : data[h].k # "nl"
              IN  <<SubSeq(data, 1, i - 1)>> \o Lines(SubSeq(data, i + 1, Len(data)))
         ELSE <<data>>

\* ---------------------------------------------------------------------- state
VARIABLES
    rev,                \* the revision that runs: "hash" or "plain"
    dir,                \* the mempool folder: [err, files]
    outputFile,         \* output.txt in the working directory
    stdout,             \* the lines printed so far
    pc,                 \* main's position
    transactions,       \* main: the loaded transactions
    idx,                \* main: loaded transactions the validation loop has taken
    validated,          \* every argument ValidateTransaction was called with, in order
    validTransactions,  \* main: the accepted transactions
    coinbaseTx,         \* main: the synthesized coinbase
    block,              \* main: the block under assembly
    serializedHeader,   \* main: SerializeBlockHeader(block.Header)
    blockHash,          \* main: HashBlockHeader(serializedHeader)
    arg,                \* a pure function called on its own: the call
    ret                 \* ... and what it returned

vars ==
    <<rev, dir, outputFile, stdout, pc, transactions, idx, validated, validTransactions,
      coinbaseTx, block, serializedHeader, blockHash, arg, ret>>

mainVars ==
    <<rev, dir, outputFile, stdout, pc, transactions, idx, validated, validTransactions,
      coinbaseTx, block, serializedHeader, blockHash>>

\* ------------------------------------------------------------------- inputs
In(txid, value) == TxInput(txid, 0, "", FALSE, U32(Base - 1, Base - 1), Prevout(value))
Out(value) == TxOutput("", "", "", "", value)

\* The input and output lists of the records in the mempool folder: none,
\* 5000, 4000, and two inputs whose total exceeds the int range; 4000, and a
\* positive next to a negative value.
RecordVins ==
    {<<>>, <<In("aa", I64(5000))>>, <<In("bb", I64(4000))>>,
     <<In("cc", MaxInt64), In("dd", I64(1))>>}
RecordVouts == {<<Out(I64(4000))>>, <<Out(I64(1)), Out(I64(-2))>>}

\* What a record can decode to; two records spell out the coinbase of either revision.
Records ==
    {Transaction(U32(0, 2), U32(0, 0), vin, vout) : vin \in RecordVins, vout \in RecordVouts}
      \cup {CreateCoinbaseTransaction, CreateCoinbaseTransactionPlain}

\* A directory named like a record, a file of another suffix, a record that
\* cannot be read, a malformed record, and the well-formed records.
DirEntries ==
    {DirEntry(TRUE, TRUE, TRUE, FALSE, ZeroTransaction),
     DirEntry(FALSE, FALSE, TRUE, FALSE, ZeroTransaction),
     DirEntry(FALSE, TRUE, FALSE, FALSE, ZeroTransaction),
     DirEntry(FALSE, TRUE, TRUE, FALSE, ZeroTransaction)}
      \cup {DirEntry(FALSE, TRUE, TRUE, TRUE, tx) : tx \in Records}

SeqsUpTo(S, n) == UNION {[1..k -> S] : k \in 0..n}

Folders ==
    {[err |-> TRUE, files |-> <<>>]}
      \cup {[err |-> FALSE, files |-> fs] : fs \in SeqsUpTo(DirEntries, MaxFiles)}

\* output.txt before the run: absent, or left by an earlier run.
StaleFile == File(<<Text("stale"), NL>>)

\* time.Now().Unix(): a date in 2024, and one past 2106 that uint32() truncates.
Clocks == {I64(1714000000), <<5, 0, 1, 0>>}

Say(text, n, s) == [text |-> text, n |-> n, s |-> s]

IdleArg == [fn |-> "none", tx |-> ZeroTransaction, header |-> ZeroHeader]
IdleRet == [done |-> FALSE, accept |-> FALSE, bytes |-> <<>>]

Init ==
    /\ rev \in {"hash", "plain"}
    /\ dir \in Folders
    /\ outputFile \in {NoFile, StaleFile}
    /\ stdout = <<>>
    /\ pc = "load"
    /\ transactions = <<>>
    /\ idx = 0
    /\ validated = <<>>
    /\ validTransactions = <<>>
    /\ coinbaseTx = ZeroTransaction
    /\ block = ZeroBlock
    /\ serializedHeader = <<>>
    /\ blockHash = NoHash
    /\ arg = IdleArg
    /\ ret = IdleRet

\* ------------------------------------------------------------------- main
\* transactions, err := LoadTransactionsFromFolder(MempoolPath), and the
\* error branch or the count line that follows it.
Load ==
    /\ pc = "load"
    /\ LET r == LoadTransactionsFromFolder(dir)
       IN  IF r.err # "nil"
           THEN /\ stdout' = Append(stdout, Say("Error loading transactions:", 0, r.err))
                /\ pc' = "exit"
                /\ UNCHANGED transactions
           ELSE /\ transactions' = r.transactions
                /\ stdout' = Append(stdout,
                       Say("Number of transactions in mempool:", Len(r.transactions), ""))
                /\ pc' = "validate"
    /\ UNCHANGED <<rev, dir, outputFile, idx, validated, validTransactions, coinbaseTx,
                   block, serializedHeader, blockHash, arg, ret>>

ValidateStepKeepAll ==
    /\ pc = "validate"
    /\ idx < Len(transactions)
    /\ LET tx == transactions[idx + 1]
       IN  /\ validated' = Append(validated, tx)
           /\ validTransactions' = Append(validTransactions, tx)
           /\ idx' = idx + 1
           /\ UNCHANGED <<stdout, pc>>
    /\ UNCHANGED <<rev, dir, outputFile, transactions, coinbaseTx, block, serializedHeader,
                   blockHash, arg, ret>>

\* One pass of the validation loop.  A rejected transaction is reported with
\* tx.Vin[0].Txid, which panics when the transaction has no inputs.
ValidateStep ==
    /\ pc = "validate"
    /\ idx < Len(transactions)
    /\ LET tx == transactions[idx + 1]
       IN  /\ validated' = Append(validated, tx)
           /\ IF ValidateTransaction(tx)
              THEN /\ validTransactions' = Append(validTransactions, tx)
                   /\ idx' = idx + 1
                   /\ UNCHANGED <<stdout, pc>>
              ELSE IF tx.Vin = <<>>
                   THEN /\ pc' = "panic"
                        /\ UNCHANGED <<stdout, idx, validTransactions>>
                   ELSE /\ stdout' = Append(stdout, Say("Invalid transaction", 0, tx.Vin[1].Txid))
                        /\ idx' = idx + 1
                        /\ UNCHANGED <<pc, validTransactions>>
    /\ UNCHANGED <<rev, dir, outputFile, transactions, coinbaseTx, block, serializedHeader,
                   blockHash, arg, ret>>

\* The loop is over: the count line (and, in the plain revision, the size line,
\* whose unsafe.Sizeof does not evaluate validTransactions[0]).
ValidateDone ==
    /\ pc = "validate"
    /\ idx = Len(transactions)
    /\ stdout' =
          Append(stdout, Say("Number of valid transactions:", Len(validTransactions), ""))
            \o (IF rev = "plain"
                THEN <<Say("Size of first valid transaction:", TransactionSizeof, "")>>
                ELSE <<>>)
    /\ pc' = "assemble"
    /\ UNCHANGED <<rev, dir, outputFile, transactions, idx, validated, validTransactions,
                   coinbaseTx, block, serializedHeader, blockHash, arg, ret>>

\* The coinbase is created, put before the accepted transactions, and the
\* Block literal is built around them.  The plain revision assigns the joined
\* sequence back to validTransactions.
Assemble ==
    /\ pc = "assemble"
    /\ LET cb == IF rev = "hash" THEN CreateCoinbaseTransaction
                 ELSE CreateCoinbaseTransactionPlain
           blockTransactions == BlockTransactions(cb, validTransactions)
       IN  /\ coinbaseTx' = cb
           /\ validTransactions' =
                 IF rev = "hash" THEN validTransactions ELSE blockTransactions
           /\ block' = [Size |-> 0, Header |-> ZeroHeader,
                        TransactionCount |-> Len(blockTransactions),
                        Transactions |-> blockTransactions]
    /\ pc' = "header"
    /\ UNCHANGED <<rev, dir, outputFile, stdout, transactions, idx, validated,
                   serializedHeader, blockHash, arg, ret>>

\* block.Header.Version, .Timestamp, .DifficultyTarget, .Nonce are set.
SetHeader ==
    /\ pc = "header"
    /\ \E now \in Clocks :
          block' = [block EXCEPT !.Header.Version = U32(0, 1),
                                 !.Header.Timestamp = TruncU32(now),
                                 !.Header.DifficultyTarget = DifficultyTarget,
                                 !.Header.Nonce = U32(0, 0)]
    /\ pc' = "size"
    /\ UNCHANGED <<rev, dir, outputFile, stdout, transactions, idx, validated,
                   validTransactions, coinbaseTx, serializedHeader, blockHash, arg, ret>>

\* block.Size = blockSize
CalcSize ==
    /\ pc = "size"
    /\ block' = [block EXCEPT !.Size = BlockSize(block)]
    /\ pc' = IF rev = "hash" THEN "hash" ELSE "write"
    /\ UNCHANGED <<rev, dir, outputFile, stdout, transactions, idx, validated,
                   validTransactions, coinbaseTx, serializedHeader, blockHash, arg, ret>>

\* serializedHeader and blockHash (the hash revision only).
SerializeAndHash ==
    /\ pc = "hash"
    /\ serializedHeader' = SerializeBlockHeader(block.Header)
    /\ blockHash' = HashBlockHeader(serializedHeader')
    /\ pc' = "write"
    /\ UNCHANGED <<rev, dir, outputFile, stdout, transactions, idx, validated,
                   validTransactions, coinbaseTx, block, arg, ret>>

\* WriteBlockToOutputFile(block, blockHash) and main's handling of its result.
\* os.Create may fail, and leaves the file as it was; any write may fail, and
\* the writes before it stay in the file; with every write done the call
\* returns nil, unless the identifier loop met a transaction without inputs.
Write ==
    /\ pc = "write"
    /\ \/ /\ stdout' = Append(stdout, Say("Error writing block to output file:", 0, "create"))
          /\ pc' = "exit"
          /\ UNCHANGED outputFile
       \/ \E done \in 0..Len(Writes(rev, block)) :
             /\ outputFile' = File(Concat(SubSeq(Writes(rev, block), 1, done)))
             /\ IF done < Len(Writes(rev, block))
                THEN /\ stdout' = Append(stdout,
                            Say("Error writing block to output file:", 0, "write"))
                     /\ pc' = "exit"
                ELSE IF WriterPanics(rev, block)
                     THEN /\ pc' = "panic"
                          /\ UNCHANGED stdout
                     ELSE /\ stdout' = Append(stdout, Say("Block data written to output.txt", 0, ""))
                          /\ pc' = "done"
    /\ UNCHANGED <<rev, dir, transactions, idx, validated, validTransactions, coinbaseTx,
                   block, serializedHeader, blockHash, arg, ret>>

Next ==
    \/ Load
    \/ ValidateStep
    \/ ValidateDone
    \/ Assemble
    \/ SetHeader
    \/ CalcSize
    \/ SerializeAndHash
    \/ Write

Spec == Init /\ [][Next]_vars

\* ------------------------------------------------- pure functions on their own
\* Values around the limb and the int boundaries.
FnValues == {I64(1), I64(-1), I64(65535), MaxInt64, MinInt64}

FnTransactions ==
    {Transaction(U32(0, 2), U32(0, 0),
                 [i \in 1..Len(ins) |-> In("aa", ins[i])],
                 [i \in 1..Len(outs) |-> Out(outs[i])]) :
        ins \in SeqsUpTo(FnValues, MaxVin), outs \in SeqsUpTo(FnValues, MaxVout)}

FnHeaders ==
    [Version : {U32(0, 1), U32(258, 772)},
     PreviousBlockHash : {ZeroBytes32, [i \in 1..32 |-> i]},
     MerkleRoot : {ZeroBytes32, [i \in 1..32 |-> 255]},
     Timestamp : {U32(0, 0), U32(Base - 1, Base - 1)},
     DifficultyTarget : SeqsUpTo({48, 102}, MaxTargetLen) \cup {DifficultyTarget},
     Nonce : {U32(0, 0), U32(0, 513)}]

InitFn ==
    /\ rev = "hash"
    /\ dir = [err |-> TRUE, files |-> <<>>]
    /\ outputFile = NoFile
    /\ stdout = <<>>
    /\ pc = "idle"
    /\ transactions = <<>>
    /\ idx = 0
    /\ validated = <<>>
    /\ validTransactions = <<>>
    /\ coinbaseTx = ZeroTransaction
    /\ block = ZeroBlock
    /\ serializedHeader = <<>>
    /\ blockHash = NoHash
    /\ arg \in {[fn |-> "ValidateTransaction", tx |-> tx, header |-> ZeroHeader] :
                    tx \in FnTransactions}
               \cup {[fn |-> "SerializeBlockHeader", tx |-> ZeroTransaction, header |-> h] :
                        h \in FnHeaders}
    /\ ret = IdleRet

CallValidateTransaction ==
    /\ arg.fn = "ValidateTransaction"
    /\ ~ret.done
    /\ ret' = [done |-> TRUE, accept |-> ValidateTransaction(arg.tx), bytes |-> <<>>]
    /\ UNCHANGED <<mainVars, arg>>

CallSerializeBlockHeader ==
    /\ arg.fn = "SerializeBlockHeader"
    /\ ~ret.done
    /\ ret' = [done |-> TRUE, accept |-> FALSE, bytes |-> SerializeBlockHeader(arg.header)]
    /\ UNCHANGED <<mainVars, arg>>

NextFn ==
    \/ CallValidateTransaction
    \/ CallSerializeBlockHeader

SpecFn == InitFn /\ [][NextFn]_vars

\* ================================================================== claims
Positive(v) == LessSigned(I64(0), v)

\* The block has been assembled.
Assembled == block.Transactions # <<>>

\* The accepted transactions of the loaded batch, in load order.
Accepted == SelectSeq(transactions, ValidateTransaction)

\* The coinbase of the revision that runs.
RevCoinbase == IF rev = "hash" THEN CreateCoinbaseTransaction ELSE CreateCoinbaseTransactionPlain

RECURSIVE ExactTotal(_)
\* The sum of 64-bit values as a number: on 5 limbs, where the sum of fewer
\* than 2^16 of them cannot wrap.
ExactTotal(values) ==
    IF values = <<>> THEN SignExtend(I64(0), 5)
    ELSE AddLimbs(ExactTotal(SubSeq(values, 1, Len(values) - 1)),
                  SignExtend(values[Len(values)], 5), 0)

InputValues(tx) == [i \in 1..Len(tx.Vin) |-> tx.Vin[i].PrevOut.Value]
OutputValues(tx) == [i \in 1..Len(tx.Vout) |-> tx.Vout[i].Value]

\* C1 (as claimed): for every transaction, of any number of inputs and outputs
\* and any integer values, ValidateTransaction returns true iff the sum of the
\* inputs' prevout values is strictly greater than the sum of the outputs'
\* values.  Checked under SpecFn.
C1_TrueIffInputTotalExceedsOutputTotal ==
    (arg.fn = "ValidateTransaction" /\ ret.done)
      => (ret.accept <=> LessSigned(ExactTotal(OutputValues(arg.tx)),
                                    ExactTotal(InputValues(arg.tx))))

\* C2: whenever the block is assembled, its transactions are the coinbase of
\* the revision, once and at index 0, followed by the accepted transactions
\* (the loaded ones that ValidateTransaction accepts, in load order), and
\* TransactionCount is 1 + the number of accepted transactions.
C2_CoinbaseFirstThenAccepted ==
    Assembled =>
      /\ block.Transactions[1] = RevCoinbase
      /\ Cardinality({i \in 1..Len(block.Transactions) : block.Transactions[i] = RevCoinbase}) = 1
      /\ SubSeq(block.Transactions, 2, Len(block.Transactions)) = Accepted
      /\ block.TransactionCount = 1 + Len(Accepted)
      /\ Len(block.Transactions) = block.TransactionCount

\* C2 witness: a finished run whose batch had accepted and rejected transactions.
C2_Witness ==
    /\ pc = "done"
    /\ Len(Accepted) >= 1
    /\ Len(transactions) > Len(Accepted)
    /\ block.TransactionCount = 1 + Len(Accepted)

\* The uint32 that 4 bytes hold in little-endian order.
LittleEndian32(b) == <<b[1] + 256 * b[2], b[3] + 256 * b[4]>>

\* C3: SerializeBlockHeader returns version (4 bytes little-endian), then
\* previous_block_hash (32 bytes), merkle_root (32 bytes), timestamp (4 bytes
\* little-endian), the difficulty-target text bytes as they are, and nonce
\* (4 bytes little-endian), with nothing between them: 76 + the length of the
\* target text in all.  Checked under SpecFn.
C3_HeaderLayout ==
    (arg.fn = "SerializeBlockHeader" /\ ret.done) =>
      LET h == arg.header
          b == ret.bytes
          n == Len(h.DifficultyTarget)
      IN  /\ Len(b) = 76 + n
          /\ \A i \in 1..Len(b) : b[i] \in 0..255
          /\ LittleEndian32(SubSeq(b, 1, 4)) = h.Version
          /\ SubSeq(b, 5, 36) = h.PreviousBlockHash
          /\ SubSeq(b, 37, 68) = h.MerkleRoot
          /\ LittleEndian32(SubSeq(b, 69, 72)) = h.Timestamp
          /\ SubSeq(b, 73, 72 + n) = h.DifficultyTarget
          /\ LittleEndian32(SubSeq(b, 73 + n, 76 + n)) = h.Nonce

\* C3 witness: a header with the 64-byte target and a version whose four
\* bytes differ has been serialized to 140 bytes.
C3_Witness ==
    /\ arg.fn = "SerializeBlockHeader"
    /\ ret.done
    /\ arg.header.DifficultyTarget = DifficultyTarget
    /\ arg.header.Version = U32(258, 772)
    /\ Len(ret.bytes) = 140

\* This run has written at least its first write to output.txt.
Written == pc \in {"done", "exit", "panic"} /\ Assembled /\ outputFile.exists
             /\ outputFile.data # <<>> /\ outputFile # StaleFile

\* C4: the block hash main computes is the hash applied twice to the
\* serialized header of the assembled block, and the first line of output.txt
\* is the hex text of that same digest.
C4_WrittenDigestIsBlockHash ==
    /\ (rev = "hash" /\ pc \in {"write", "done", "exit", "panic"} /\ Assembled) =>
          /\ blockHash = Sum256OfDigest(Sum256(SerializeBlockHeader(block.Header)))
          /\ blockHash.rounds = 2
          /\ blockHash.preimage = serializedHeader
    /\ (rev = "hash" /\ Written) => Lines(outputFile.data)[1] = <<HexText(blockHash)>>

\* C4 witness: a finished run of the hash revision with its digest line.
C4_Witness ==
    /\ rev = "hash"
    /\ pc = "done"
    /\ blockHash.rounds = 2
    /\ Head(outputFile.data) = HexText(blockHash)

\* C5: after a successful run of the hash revision output.txt is, line by
\* line: the hex digest of the header; the coinbase as JSON; then one line per
\* accepted transaction, in block order, with its first input's txid.
C5_OutputLines ==
    (rev = "hash" /\ pc = "done") =>
      /\ Lines(outputFile.data) =
            <<<<HexText(HashBlockHeader(SerializeBlockHeader(block.Header)))>>,
              <<JsonText(coinbaseTx)>>>>
              \o [i \in 1..Len(validTransactions) |-> <<Text(validTransactions[i].Vin[1].Txid)>>]
      /\ Len(Lines(outputFile.data)) = 2 + Len(validTransactions)
      /\ outputFile.data[Len(outputFile.data)] = NL

\* C5 witness: a successful run with one accepted and one rejected record:
\* three lines.
C5_Witness ==
    /\ rev = "hash"
    /\ pc = "done"
    /\ Len(transactions) = 2
    /\ Len(validTransactions) = 1
    /\ Len(Lines(outputFile.data)) = 3

\* Entry i of the folder is a record that is read and fails to decode.
Malformed(i) ==
    /\ ~dir.files[i].IsDir
    /\ dir.files[i].Json
    /\ dir.files[i].Readable
    /\ ~dir.files[i].Decodes

HasMalformed == ~dir.err /\ \E i \in 1..Len(dir.files) : Malformed(i)

\* C6: with a malformed record in the folder LoadTransactionsFromFolder
\* returns an error and no transactions; the run prints the error and stops:
\* nothing is validated or assembled and output.txt stays as it was before
\* the run (absent, or with its old content).
C6_DecodeFailureAbortsBeforeOutput ==
    HasMalformed =>
      /\ LoadTransactionsFromFolder(dir).err \in {"decode", "read"}
      /\ LoadTransactionsFromFolder(dir).transactions = <<>>
      /\ pc \in {"load", "exit"}
      /\ transactions = <<>>
      /\ validated = <<>>
      /\ ~Assembled
      /\ outputFile \in {NoFile, StaleFile}
      /\ pc = "exit" =>
            /\ Len(stdout) = 1
            /\ stdout[1].text = "Error loading transactions:"
            /\ stdout[1].s = LoadTransactionsFromFolder(dir).err

\* C6 witness: a well-formed record, then a malformed one; the run has
\* stopped and the old output.txt is still there.
C6_Witness ==
    /\ pc = "exit"
    /\ Len(dir.files) = 2
    /\ dir.files[1].Decodes
    /\ Malformed(2)
    /\ stdout[1].s = "decode"
    /\ outputFile = StaleFile

\* C7 (as claimed): once the batch has loaded, the run never stops on a
\* rejected transaction: it ends with a reported error or a written artifact.
C7_RunEndsInErrorOrArtifact == pc # "panic"

\* C8: once computed, block.Size is the length of the serialized header, plus
\* 8, plus the in-memory size of every transaction of the block, coinbase
\* included; the header it was computed from has its fields set and is the
\* header that is serialized and hashed afterwards.
C8_BlockSize ==
    /\ pc \in {"hash", "write", "done"} =>
          /\ block.Size = Len(SerializeBlockHeader(block.Header)) + 8
                            + TransactionSizeof * Len(block.Transactions)
          /\ block.Size = 76 + Len(DifficultyTarget) + 8 + TransactionSizeof * block.TransactionCount
          /\ block.Header.Version = U32(0, 1)
          /\ block.Header.DifficultyTarget = DifficultyTarget
          /\ block.Header.Nonce = U32(0, 0)
    /\ pc \in {"load", "validate", "assemble", "header", "size"} => block.Size = 0
    /\ (rev = "hash" /\ pc \in {"write", "done"}) =>
          serializedHeader = SerializeBlockHeader(block.Header)

\* C8 witness: a finished run with two accepted transactions: 140 + 8 + 3 * 56.
C8_Witness ==
    /\ pc = "done"
    /\ Len(block.Transactions) = 3
    /\ block.Size = 316

\* C10: the coinbase has version 1, locktime 0, one input (index -1, coinbase
\* flag, sequence 0xFFFFFFFF, prevout value 0) and one output; ValidateTransaction
\* is called on the loaded transactions only, in load order, and all its calls
\* are over before the coinbase exists; the coinbase heads every assembled
\* block although it does not satisfy the fee rule itself, and every other
\* transaction of the block was accepted by ValidateTransaction.
C10_CoinbaseExemptOthersValidated ==
    /\ Len(validated) <= Len(transactions)
    /\ validated = SubSeq(transactions, 1, Len(validated))
    /\ coinbaseTx # ZeroTransaction =>
          /\ pc \notin {"load", "validate", "assemble"}
          /\ validated = transactions
    /\ Assembled =>
          LET cb == block.Transactions[1]
          IN  /\ cb = coinbaseTx
              /\ cb.Version = U32(0, 1)
              /\ cb.Locktime = U32(0, 0)
              /\ Len(cb.Vin) = 1
              /\ cb.Vin[1].Vout = -1
              /\ cb.Vin[1].IsCoinbase
              /\ cb.Vin[1].Sequence = U32(65535, 65535)
              /\ cb.Vin[1].PrevOut.Value = I64(0)
              /\ Len(cb.Vout) = 1
              /\ ~ValidateTransaction(cb)
              /\ \A i \in 2..Len(block.Transactions) :
                    /\ ValidateTransaction(block.Transactions[i])
                    /\ \E j \in 1..Len(validated) : validated[j] = block.Transactions[i]

\* C10 witness: a block with the coinbase and an accepted transaction, from a
\* batch in which a record spelling out the coinbase was validated and rejected.
C10_Witness ==
    /\ pc = "done"
    /\ Len(block.Transactions) = 2
    /\ \E j \in 1..Len(validated) : validated[j] = RevCoinbase
    /\ block.Transactions[1] = RevCoinbase

\* C9 (as claimed): a transaction with no inputs and an output of positive
\* value is never accepted and never in the assembled block.
C9_NoInputsPositiveOutputNeverAccepted ==
    /\ \A i \in 1..Len(validTransactions) :
          ~(validTransactions[i].Vin = <<>>
              /\ \E j \in 1..Len(validTransactions[i].Vout) :
                    Positive(validTransactions[i].Vout[j].Value))
    /\ \A i \in 2..Len(block.Transactions) :
          ~(block.Transactions[i].Vin = <<>>
              /\ \E j \in 1..Len(block.Transactions[i].Vout) :
                    Positive(block.Transactions[i].Vout[j].Value))

====
